---- MODULE Spec2Model ----
(***************************************************************************)
(* Model of crates/bevy_pbr/src/environment_map/mod.rs: the environment    *)
(* map light record, its readiness check (is_loaded), the binding          *)
(* resolver (get_bindings) and the bind group layout declaration           *)
(* (get_bind_group_layout_entries), together with the external asset       *)
(* cache (RenderAssets<Image>) the module reads from.                      *)
(*                                                                         *)
(* Rust tuples and arrays are 0-indexed, TLA+ sequences are 1-indexed:     *)
(* slot i of the source is element i + 1 of the sequences below.           *)
(***************************************************************************)
EXTENDS Integers, Sequences, FiniteSets

\* Number of distinct image handles the model distinguishes.
NumHandles == 2
\* Number of texture views the GPU can have alive at once.
MaxViews == 3

Handles == 1 .. NumHandles
ViewIds == 1 .. MaxViews

VARIABLES
    images,                  \* RenderAssets<Image>: Handle -> Option<GpuImage>
    fallback_image_cubemap,  \* FallbackImageCubemap { texture_view, sampler }
    environment_map_light,   \* Option<&EnvironmentMapLight> of the camera being prepared
    ret,                     \* the step just taken and the value it returned
    held                     \* an earlier get_bindings call: its record, result, and
                             \* whether the cache is unchanged since

vars == <<images, fallback_image_cubemap, environment_map_light, ret, held>>

----------------------------------------------------------------------------
\* Option<T>
None == [tag |-> "None"]
Some(x) == [tag |-> "Some", val |-> x]
is_some(o) == o.tag = "Some"
and_then(o, F(_)) == IF is_some(o) THEN F(o.val) ELSE None

\* References: a texture view / a sampler is identified by the object it lives in.
\* Id 0 is the view / sampler owned by the fallback cubemap.
TextureView(n) == [ty |-> "TextureView", id |-> n]
Sampler(n) == [ty |-> "Sampler", id |-> n]

\* A GPU-resident image of the asset cache.
GpuImage(n) == [texture_view |-> TextureView(n), sampler |-> Sampler(n)]

\* RenderAssets::get
get(imgs, handle) == imgs[handle]

\* struct EnvironmentMapLight { diffuse_map, specular_map }
EnvironmentMapLight == [diffuse_map : Handles, specular_map : Handles]
OptionLight == {None} \cup {Some(l) : l \in EnvironmentMapLight}

----------------------------------------------------------------------------
\* Mutant of is_loaded: || in place of &&.
is_loaded_either(self, imgs) ==
    is_some(get(imgs, self.diffuse_map)) \/ is_some(get(imgs, self.specular_map))

\* Mutant of is_loaded: the diffuse map is looked up twice.
is_loaded_diffuse_twice(self, imgs) ==
    is_some(get(imgs, self.diffuse_map)) /\ is_some(get(imgs, self.diffuse_map))

\* EnvironmentMapLight::is_loaded
is_loaded(self, imgs) ==
    is_some(get(imgs, self.diffuse_map)) /\ is_some(get(imgs, self.specular_map))

\* Mutant of get_bindings: each slot falls back on its own.
get_bindings_per_slot(light, imgs, fallback) ==
    LET d == and_then(light, LAMBDA env_map : get(imgs, env_map.diffuse_map))
        s == and_then(light, LAMBDA env_map : get(imgs, env_map.specular_map))
    IN  << IF is_some(d) THEN d.val.texture_view ELSE fallback.texture_view,
           IF is_some(s) THEN s.val.texture_view ELSE fallback.texture_view,
           fallback.sampler >>

\* Mutant of get_bindings: the two views are returned in the wrong order.
get_bindings_swapped(light, imgs, fallback) ==
    LET d == and_then(light, LAMBDA env_map : get(imgs, env_map.diffuse_map))
        s == and_then(light, LAMBDA env_map : get(imgs, env_map.specular_map))
        pair == IF is_some(d) /\ is_some(s)
                THEN <<s.val.texture_view, d.val.texture_view>>
                ELSE <<fallback.texture_view, fallback.texture_view>>
    IN  <<pair[1], pair[2], fallback.sampler>>

\* Mutant of get_bindings: an absent record is read as the default record,
\* whose two handles are the default handle.
get_bindings_default_record(light, imgs, fallback) ==
    LET l == IF is_some(light) THEN light.val
             ELSE [diffuse_map |-> 1, specular_map |-> 1]
        d == get(imgs, l.diffuse_map)
        s == get(imgs, l.specular_map)
        pair == IF is_some(d) /\ is_some(s)
                THEN <<d.val.texture_view, s.val.texture_view>>
                ELSE <<fallback.texture_view, fallback.texture_view>>
    IN  <<pair[1], pair[2], fallback.sampler>>

\* Mutant of get_bindings: a loaded environment map brings its own sampler.
get_bindings_image_sampler(light, imgs, fallback) ==
    LET d == and_then(light, LAMBDA env_map : get(imgs, env_map.diffuse_map))
        s == and_then(light, LAMBDA env_map : get(imgs, env_map.specular_map))
    IN  IF is_some(d) /\ is_some(s)
        THEN <<d.val.texture_view, s.val.texture_view, d.val.sampler>>
        ELSE <<fallback.texture_view, fallback.texture_view, fallback.sampler>>

\* get_bindings
get_bindings(light, imgs, fallback) ==
    LET d == and_then(light, LAMBDA env_map : get(imgs, env_map.diffuse_map))
        s == and_then(light, LAMBDA env_map : get(imgs, env_map.specular_map))
        pair == IF is_some(d) /\ is_some(s)
                THEN <<d.val.texture_view, s.val.texture_view>>
                ELSE <<fallback.texture_view, fallback.texture_view>>
    IN  <<pair[1], pair[2], fallback.sampler>>

\* binding_types::texture_cube / binding_types::sampler
texture_cube(sample_type) ==
    [binding |-> "Texture", view_dimension |-> "Cube", sample_type |-> sample_type]
sampler(sampler_binding_type) ==
    [binding |-> "Sampler", view_dimension |-> "None", sample_type |-> sampler_binding_type]

\* Mutant of get_bind_group_layout_entries: the sampler is declared first.
get_bind_group_layout_entries_sampler_first ==
    << sampler("Filtering"),
       texture_cube("FloatFilterable"),
       texture_cube("FloatFilterable") >>

\* get_bind_group_layout_entries
get_bind_group_layout_entries ==
    << texture_cube("FloatFilterable"),
       texture_cube("FloatFilterable"),
       sampler("Filtering") >>

----------------------------------------------------------------------------
\* What a step returns: the operation, and its value in the field of its type
\* (bool of is_loaded, triple of get_bindings, array of the layout entries).
Returned(op, loaded, bindings, entries) ==
    [op |-> op, loaded |-> loaded, bindings |-> bindings, entries |-> entries]

Init ==
    /\ images = [h \in Handles |-> None]
    /\ fallback_image_cubemap = [texture_view |-> TextureView(0), sampler |-> Sampler(0)]
    /\ environment_map_light = None
    /\ ret = Returned("start", FALSE, <<>>, <<>>)
    /\ held = None

\* Views of the images resident in the cache.
LiveViewIds == {images[h].val.texture_view.id : h \in {x \in Handles : is_some(images[x])}}

\* Any change of the cache ends the snapshot an earlier result was taken from.
Outdated(h) == IF is_some(h) THEN Some([h.val EXCEPT !.current = FALSE]) ELSE None

\* The asset pipeline prepares (or re-prepares) the image of a handle.
InsertImage(handle, n) ==
    /\ n \notin LiveViewIds
    /\ images' = [images EXCEPT ![handle] = Some(GpuImage(n))]
    /\ held' = Outdated(held)
    /\ ret' = Returned("insert", FALSE, <<>>, <<>>)
    /\ UNCHANGED <<fallback_image_cubemap, environment_map_light>>

\* The asset pipeline removes the image of a handle.
RemoveImage(handle) ==
    /\ is_some(images[handle])
    /\ images' = [images EXCEPT ![handle] = None]
    /\ held' = Outdated(held)
    /\ ret' = Returned("remove", FALSE, <<>>, <<>>)
    /\ UNCHANGED <<fallback_image_cubemap, environment_map_light>>

\* The record of the camera being prepared is extracted (replaced wholesale).
ExtractLight(light) ==
    /\ environment_map_light' = light
    /\ ret' = Returned("extract", FALSE, <<>>, <<>>)
    /\ UNCHANGED <<images, fallback_image_cubemap, held>>

\* Mutant of IsLoaded: asking for readiness loads what is missing.
IsLoadedAndLoad ==
    /\ is_some(environment_map_light)
    /\ ret' = Returned("is_loaded", is_loaded(environment_map_light.val, images), <<>>, <<>>)
    /\ images' = IF is_some(images[environment_map_light.val.diffuse_map])
                    \/ LiveViewIds = ViewIds
                 THEN images
                 ELSE [images EXCEPT ![environment_map_light.val.diffuse_map] =
                          Some(GpuImage(CHOOSE n \in ViewIds : n \notin LiveViewIds))]
    /\ UNCHANGED <<fallback_image_cubemap, environment_map_light, held>>

\* A call of EnvironmentMapLight::is_loaded on the camera's record.
IsLoaded ==
    /\ is_some(environment_map_light)
    /\ ret' = Returned("is_loaded", is_loaded(environment_map_light.val, images), <<>>, <<>>)
    /\ UNCHANGED <<images, fallback_image_cubemap, environment_map_light, held>>

\* Mutant of GetBindings: a result resolved earlier for the same record is reused.
GetBindingsCached(retain) ==
    LET out == IF is_some(held) /\ held.val.light = environment_map_light
               THEN held.val.out
               ELSE get_bindings(environment_map_light, images, fallback_image_cubemap)
    IN  /\ ret' = Returned("get_bindings", FALSE, out, <<>>)
        /\ held' = IF retain
                   THEN Some([light |-> environment_map_light, out |-> out, current |-> TRUE])
                   ELSE held
        /\ UNCHANGED <<images, fallback_image_cubemap, environment_map_light>>

\* Mutant of GetBindings: the result of a resolution for another record leaks in.
GetBindingsLeaky(retain) ==
    LET out == IF is_some(held) /\ held.val.light # environment_map_light
               THEN held.val.out
               ELSE get_bindings(environment_map_light, images, fallback_image_cubemap)
    IN  /\ ret' = Returned("get_bindings", FALSE, out, <<>>)
        /\ held' = IF retain
                   THEN Some([light |-> environment_map_light, out |-> out, current |-> TRUE])
                   ELSE held
        /\ UNCHANGED <<images, fallback_image_cubemap, environment_map_light>>

\* A call of get_bindings for the camera's record; the caller may keep the
\* returned triple (retain) to compare later calls against.
GetBindings(retain) ==
    LET out == get_bindings(environment_map_light, images, fallback_image_cubemap)
    IN  /\ ret' = Returned("get_bindings", FALSE, out, <<>>)
        /\ held' = IF retain
                   THEN Some([light |-> environment_map_light, out |-> out, current |-> TRUE])
                   ELSE held
        /\ UNCHANGED <<images, fallback_image_cubemap, environment_map_light>>

\* A call of get_bind_group_layout_entries.
GetBindGroupLayoutEntries ==
    /\ ret' = Returned("get_bind_group_layout_entries", FALSE, <<>>,
                    get_bind_group_layout_entries)
    /\ UNCHANGED <<images, fallback_image_cubemap, environment_map_light, held>>

Next ==
    \/ \E handle \in Handles, n \in ViewIds : InsertImage(handle, n)
    \/ \E handle \in Handles : RemoveImage(handle)
    \/ \E light \in OptionLight : ExtractLight(light)
    \/ IsLoaded
    \/ \E retain \in BOOLEAN : GetBindings(retain)
    \/ GetBindGroupLayoutEntries

Spec == Init /\ [][Next]_vars

----------------------------------------------------------------------------
\* Helpers for the properties below.
Resident(handle) == images[handle].tag = "Some"
CachedView(handle) == images[handle].val.texture_view
FallbackView == fallback_image_cubemap.texture_view
Resolved == ret.op = "get_bindings"
Present == environment_map_light.tag = "Some"
Diffuse == environment_map_light.val.diffuse_map
Specular == environment_map_light.val.specular_map

\* C1: when exactly one of the record's two handles is resident, get_bindings
\* returns the fallback view in both texture slots; and in no state does it
\* return one real view together with one fallback view.
C1_PairwiseFallback ==
    Resolved =>
        /\ (Present /\ (Resident(Diffuse) # Resident(Specular)) =>
               ret.bindings[1] = FallbackView /\ ret.bindings[2] = FallbackView)
        /\ (ret.bindings[1] = FallbackView <=> ret.bindings[2] = FallbackView)

C1_Witness ==
    /\ Resolved /\ Present
    /\ Resident(Diffuse) /\ ~Resident(Specular)
    /\ ret.bindings[1] = FallbackView

\* C2: when both handles of the record are resident, get_bindings returns the
\* cached view of diffuse_map first, the cached view of specular_map second
\* and the fallback sampler third.
C2_FullSuccess ==
    Resolved /\ Present /\ Resident(Diffuse) /\ Resident(Specular) =>
        ret.bindings = <<CachedView(Diffuse), CachedView(Specular),
                    fallback_image_cubemap.sampler>>

C2_Witness ==
    /\ Resolved /\ Present
    /\ Diffuse # Specular
    /\ Resident(Diffuse) /\ Resident(Specular)
    /\ ret.bindings[1] = CachedView(Diffuse) /\ ret.bindings[1] # ret.bindings[2]

\* C3: with no record, get_bindings returns (fallback view, fallback view,
\* fallback sampler) whatever the cache holds, and a present record whose two
\* handles are both missing gets that same triple.
C3_AbsentRecord ==
    Resolved /\ (~Present \/ (~Resident(Diffuse) /\ ~Resident(Specular))) =>
        ret.bindings = <<FallbackView, FallbackView, fallback_image_cubemap.sampler>>

C3_Witness ==
    /\ Resolved /\ ~Present
    /\ \A h \in Handles : Resident(h)
    /\ ret.bindings[1] = FallbackView

\* C4 as claimed: is_loaded is true iff get_bindings, for the same record and
\* cache, returns two distinct non-fallback views.
C4_Original ==
    Resolved /\ Present =>
        (is_loaded(environment_map_light.val, images) <=>
            /\ ret.bindings[1] # ret.bindings[2]
            /\ ret.bindings[1] # FallbackView
            /\ ret.bindings[2] # FallbackView)

\* C4 as amended: is_loaded is true iff get_bindings, for the same record and
\* cache, returns two non-fallback views; the two views differ exactly when
\* the record's two handles differ.
C4_ReadinessConsistency ==
    /\ Resolved /\ Present =>
        /\ is_loaded(environment_map_light.val, images) <=>
               (ret.bindings[1] # FallbackView /\ ret.bindings[2] # FallbackView)
        /\ is_loaded(environment_map_light.val, images) =>
               (ret.bindings[1] # ret.bindings[2] <=> Diffuse # Specular)
    /\ ret.op = "is_loaded" =>
        (ret.loaded <=>
            LET out == get_bindings(environment_map_light, images, fallback_image_cubemap)
            IN  out[1] # FallbackView /\ out[2] # FallbackView)

C4_Witness ==
    /\ Resolved /\ Present
    /\ Diffuse = Specular /\ Resident(Diffuse)
    /\ ret.bindings[1] = ret.bindings[2] /\ ret.bindings[1] # FallbackView

\* C5: is_loaded returns true iff both handles of the record are resident in
\* the cache; it returns false when none or exactly one of them is.
C5_IsLoaded ==
    ret.op = "is_loaded" =>
        (ret.loaded = TRUE <=> (Resident(Diffuse) /\ Resident(Specular)))

C5_Witness ==
    /\ ret.op = "is_loaded"
    /\ ~Resident(Diffuse) /\ Resident(Specular)
    /\ ret.loaded = FALSE

\* C6: the third element returned by get_bindings is the fallback sampler,
\* whether the record is absent or its handles are resident or not.
C6_FallbackSampler ==
    Resolved => ret.bindings[3] = fallback_image_cubemap.sampler

C6_Witness ==
    /\ Resolved /\ Present
    /\ Resident(Diffuse) /\ Resident(Specular)
    /\ ret.bindings[1] # FallbackView
    /\ ret.bindings[3] = fallback_image_cubemap.sampler

\* C7: get_bind_group_layout_entries returns exactly three entries, a
\* filterable float cube texture, the same again, then a filtering sampler,
\* whatever the cache and the record are; each entry has the kind of the
\* element get_bindings returns at the same position.
C7_LayoutStability ==
    ret.op = "get_bind_group_layout_entries" =>
        /\ Len(ret.entries) = 3
        /\ ret.entries[1] = [binding |-> "Texture", view_dimension |-> "Cube",
                         sample_type |-> "FloatFilterable"]
        /\ ret.entries[2] = ret.entries[1]
        /\ ret.entries[3] = [binding |-> "Sampler", view_dimension |-> "None",
                         sample_type |-> "Filtering"]
        /\ LET out == get_bindings(environment_map_light, images, fallback_image_cubemap)
           IN  \A i \in 1 .. 3 :
                   (ret.entries[i].binding = "Texture" <=> out[i].ty = "TextureView")
                   /\ (ret.entries[i].binding = "Sampler" <=> out[i].ty = "Sampler")

C7_Witness ==
    /\ ret.op = "get_bind_group_layout_entries"
    /\ Present /\ Resident(Diffuse) /\ ~Resident(Specular)

C9_ReadOnly ==
    [][ret'.op \in {"is_loaded", "get_bindings"} =>
          /\ images' = images
          /\ fallback_image_cubemap' = fallback_image_cubemap
          /\ environment_map_light' = environment_map_light]_vars

C9_Witness ==
    /\ ret.op = "is_loaded"
    /\ ~Resident(Diffuse) /\ ~Resident(Specular)
    /\ ret.loaded = FALSE

\* C10: every get_bindings call answers from the cache as it is at the call:
\* with both images of the record resident it returns their current views,
\* with either one missing it returns the fallback view twice, whatever an
\* earlier call returned before the cache changed.
C10_Freshness ==
    [][ret'.op = "get_bindings" =>
          LET light == environment_map_light'
              both == /\ light.tag = "Some"
                      /\ images'[light.val.diffuse_map].tag = "Some"
                      /\ images'[light.val.specular_map].tag = "Some"
          IN  IF both
              THEN /\ ret'.bindings[1] = images'[light.val.diffuse_map].val.texture_view
                   /\ ret'.bindings[2] = images'[light.val.specular_map].val.texture_view
              ELSE /\ ret'.bindings[1] = fallback_image_cubemap'.texture_view
                   /\ ret'.bindings[2] = fallback_image_cubemap'.texture_view]_vars

\* An earlier call for this record returned real views, an image was removed
\* since, and the call just made returns the fallback view.
C10_Witness ==
    /\ Resolved /\ Present /\ held.tag = "Some"
    /\ ~held.val.current /\ held.val.light = environment_map_light
    /\ held.val.out[1] # FallbackView
    /\ ret.bindings[1] = FallbackView /\ ret.bindings[2] = FallbackView

====
